---- MODULE Spec2Model ----
(***************************************************************************)
(* A model of kafka/conn.py: KafkaConnection, a thread-local framed socket *)
(* client.  Every handler of the class is one action; the only handler     *)
(* that spans several steps is recv(), whose read loop blocks in the       *)
(* socket once per iteration.                                              *)
(***************************************************************************)
EXTENDS Integers, Sequences, FiniteSets, TLC

VARIABLES
    py3,     \* the interpreter the module runs under: six.PY3
    args,    \* per object: the positional arguments local.__new__ stored
    dict,    \* per (object, thread): the thread-local attribute dictionary
    socks,   \* every socket a dial has opened, indexed by handle
    pc,      \* per thread: "idle" or "reading" (inside recv's read loop)
    frame,   \* per thread: the locals of the running recv()
    ret,     \* how the last call ended, and what it did
    hosts,   \* the argument of collect_hosts: a string or a list of strings
    randomize,  \* the second argument of collect_hosts
    result   \* what collect_hosts returned, once it has

vars == <<py3, args, dict, socks, pc, frame, ret, hosts, randomize, result>>

----------------------------------------------------------------------------
(* Bounds of the model *)

MaxSocks == 2
MaxFrames == 1
MaxSpin == 2
MaxQueued == 3
MaxHosts == 3

(* Program constants *)

DEFAULT_SOCKET_TIMEOUT_SECONDS == 120
DEFAULT_KAFKA_PORT == 9092
RecvChunk == 4096

Threads == {"t1", "t2"}
Objs == {"o", "c"}
Keys == Objs \X Threads

----------------------------------------------------------------------------
(* Python values.  Every value is a record of one shape, so that an        *)
(* attribute may hold None, an int, a str, a dict of options or a socket.  *)

PyNone == [t |-> "none", i |-> 0, s |-> "", keys |-> {}]
PyAbsent == [t |-> "absent", i |-> 0, s |-> "", keys |-> {}]
PyInt(n) == [t |-> "int", i |-> n, s |-> "", keys |-> {}]
PyStr(x) == [t |-> "str", i |-> 0, s |-> x, keys |-> {}]
PySock(h) == [t |-> "sock", i |-> h, s |-> "", keys |-> {}]
\* an ssl options map: its key set, and the value under 'security.protocol'
PyMap(ks, proto) == [t |-> "map", i |-> 0, s |-> proto, keys |-> ks]

\* bool(v): None, 0, '' and {} are false; a socket object is always true
Truthy(v) ==
    CASE v.t = "none" -> FALSE
      [] v.t = "int" -> v.i # 0
      [] v.t = "str" -> v.s # ""
      [] v.t = "map" -> v.keys # {}
      [] OTHER -> TRUE

Upper(x) == IF x = "ssl" THEN "SSL" ELSE x

Min(a, b) == IF a < b THEN a ELSE b

----------------------------------------------------------------------------
(* The thread-local dictionary and the sockets *)

NoDict ==
    [live |-> FALSE, host |-> PyAbsent, port |-> PyAbsent, timeout |-> PyAbsent,
     sock |-> PyAbsent, sslopts |-> PyAbsent]

\* class KafkaConnection(local): the attributes thread t sees on object o
\* are those of the dictionary kept for (o, t)
Ctx_shared(o, t) == <<o, "t1">>
Ctx(o, t) == <<o, t>>

NewSock(host, port, timeout, t) ==
    [open |-> TRUE, tls |-> FALSE, cert_reqs |-> PyAbsent,
     host |-> host, port |-> port, timeout |-> timeout,
     by |-> t, users |-> {t},
     inbuf |-> <<>>, eof |-> FALSE, frames |-> <<>>, nrecv |-> 0]

Ev(e, h, r) == [e |-> e, h |-> h, r |-> r]

\* the handle an attribute dictionary holds, 0 when it holds none
Held(d) == IF d.sock.t = "sock" THEN d.sock.i ELSE 0

----------------------------------------------------------------------------
(* The handlers, as functions of a world w = [d, s, x, tr]: the            *)
(* dictionaries, the sockets, the exception in flight ("none" when there   *)
(* is none) and the socket calls made so far in this handler.              *)

World == [d |-> dict, s |-> socks, x |-> "none", tr |-> <<>>]

\* a socket after close(): what the peer had sent is gone with it
Closed(sk, t) ==
    [sk EXCEPT !.open = FALSE, !.users = @ \cup {t},
               !.inbuf = <<>>, !.eof = FALSE, !.frames = <<>>, !.nrecv = 0]

\* shutdown(SHUT_RDWR) raises when the server has already closed the socket
\* (or the descriptor is gone); close() expects and ignores that
Shutdown(sk) == IF sk.open /\ ~sk.eof THEN "ok" ELSE "err"

CloseUnguarded(w, k, t) ==
    IF Truthy(w.d[k].sock)
    THEN LET h == w.d[k].sock.i
         IN  [w EXCEPT !.s[h] = Closed(@, t),
                       !.d[k].sock = PyNone,
                       !.tr = @ \o <<Ev("shutdown", h, Shutdown(w.s[h])),
                                     Ev("close", h, "ok")>>]
    ELSE [w EXCEPT !.x = "AttributeError"]
CloseRaisesOnShutdown(w, k, t) ==
    IF Truthy(w.d[k].sock)
    THEN LET h == w.d[k].sock.i
         IN  IF Shutdown(w.s[h]) = "err"
             THEN [w EXCEPT !.s[h].users = @ \cup {t},
                            !.x = "socket.error",
                            !.tr = @ \o <<Ev("shutdown", h, "err")>>]
             ELSE [w EXCEPT !.s[h] = Closed(@, t),
                            !.d[k].sock = PyNone,
                            !.tr = @ \o <<Ev("shutdown", h, "ok"),
                                          Ev("close", h, "ok")>>]
    ELSE w
\* close(): shutdown (its socket.error is ignored), close, forget the handle
Close(w, k, t) ==
    IF Truthy(w.d[k].sock)
    THEN LET h == w.d[k].sock.i
         IN  [w EXCEPT !.s[h] = Closed(@, t),
                       !.d[k].sock = PyNone,
                       !.tr = @ \o <<Ev("shutdown", h, Shutdown(w.s[h])),
                                     Ev("close", h, "ok")>>]
    ELSE w

RaiseNoCleanup(w, k, t) == [w EXCEPT !.x = "ConnectionError"]
\* _raise_connection_error(): clean up the socket if there is one, then raise
RaiseConnectionError(w, k, t) ==
    LET w1 == IF Truthy(w.d[k].sock) THEN Close(w, k, t) ELSE w
    IN  [w1 EXCEPT !.x = "ConnectionError"]

Supported ==
    {"security.protocol", "keyfile", "certfile", "cert_reqs", "ca_certs"}
        \cup (IF py3 THEN {"ciphers"} ELSE {})

SslWrapperRaises(w, k, t, wr) ==
    LET opts == w.d[k].sslopts
        h == w.d[k].sock.i
    IN  IF opts.keys \ Supported # {} THEN [w EXCEPT !.x = "SystemExit"]
        ELSE IF "cert_reqs" \in opts.keys THEN [w EXCEPT !.x = "KeyError"]
        ELSE IF wr = "ok"
             THEN [w EXCEPT !.s[h].tls = TRUE,
                            !.s[h].cert_reqs = PyStr("CERT_NONE"),
                            !.tr = @ \o <<Ev("wrap", h, "ok")>>]
        ELSE [w EXCEPT !.s[h].open = IF py3 THEN FALSE ELSE @,
                       !.tr = @ \o <<Ev("wrap", h, wr)>>,
                       !.x = "socket.error"]
\* ssl_wrapper(): wr is what ssl.wrap_socket does: "ok", "SSLError" (the
\* handshake fails) or "error" (another socket.error)
SslWrapper(w, k, t, wr) ==
    LET opts == w.d[k].sslopts
        h == w.d[k].sock.i
    IN  IF opts.keys \ Supported # {} THEN [w EXCEPT !.x = "SystemExit"]
        ELSE IF "cert_reqs" \in opts.keys
             \* self.sslopts['ca_reqs']: no supported map has that key
             THEN [w EXCEPT !.x = "KeyError"]
        ELSE IF wr = "ok"
             THEN [w EXCEPT !.s[h].tls = TRUE,
                            !.s[h].cert_reqs = PyStr("CERT_NONE"),
                            !.tr = @ \o <<Ev("wrap", h, "ok")>>]
        ELSE \* the wrap failed: Python 3's SSLSocket has taken the descriptor
             \* over and closes it; Python 2's leaves the plain socket open
             LET w1 == [w EXCEPT !.s[h].open = IF py3 THEN FALSE ELSE @,
                                 !.tr = @ \o <<Ev("wrap", h, wr)>>]
             IN  IF wr = "SSLError" THEN w1  \* logged, swallowed
                 ELSE [w1 EXCEPT !.x = "socket.error"]

ReinitKeepsFailedDial(w, k, t, cn, wr) ==
    LET w1 == IF Truthy(w.d[k].sock) THEN Close(w, k, t) ELSE w
        d == w1.d[k]
        h == Len(w1.s) + 1
        w2 == [w1 EXCEPT !.s = Append(@, NewSock(d.host, d.port, d.timeout, t)),
                         !.d[k].sock = PySock(h),
                         !.tr = @ \o <<Ev("connect", h, cn)>>]
    IN  IF cn = "err" THEN [w2 EXCEPT !.s[h].open = FALSE, !.x = "ConnectionError"]
        ELSE w2
\* reinit(): cn is what socket.create_connection does: "ok" or "err"
Reinit(w, k, t, cn, wr) ==
    LET w1 == IF Truthy(w.d[k].sock) THEN Close(w, k, t) ELSE w
        d == w1.d[k]
        h == Len(w1.s) + 1
    IN  IF cn = "err"
        THEN RaiseConnectionError(
                 [w1 EXCEPT !.tr = @ \o <<Ev("connect", 0, "err")>>], k, t)
        ELSE LET w2 == [w1 EXCEPT
                            !.s = Append(@, NewSock(d.host, d.port, d.timeout, t)),
                            !.d[k].sock = PySock(h),
                            !.tr = @ \o <<Ev("connect", h, "ok")>>]
                 o == d.sslopts
             IN  IF o.t = "absent" THEN [w2 EXCEPT !.x = "AttributeError"]
                 ELSE IF ~Truthy(o) THEN w2
                 ELSE IF o.t # "map" THEN [w2 EXCEPT !.x = "TypeError"]
                 ELSE IF "security.protocol" \notin o.keys THEN w2
                 ELSE IF Upper(o.s) # "SSL" THEN w2
                 ELSE LET w3 == SslWrapper(w2, k, t, wr)
                      IN  IF w3.x = "socket.error"
                          THEN RaiseConnectionError([w3 EXCEPT !.x = "none"], k, t)
                          ELSE w3

\* __init__(host, port, sslopts=None, timeout=120), bound to the positional
\* arguments a
InitAttrs(a) ==
    [live |-> TRUE,
     host |-> a[1],
     port |-> a[2],
     timeout |-> IF Len(a) >= 4 THEN a[4] ELSE PyInt(DEFAULT_SOCKET_TIMEOUT_SECONDS),
     sock |-> PyNone,
     sslopts |-> IF Len(a) >= 3 THEN a[3] ELSE PyNone]

\* __init__: set the attributes, then reinit()
Constructor(w, k, t, a, cn, wr) ==
    Reinit([w EXCEPT !.d[k] = InitAttrs(a)], k, t, cn, wr)

\* threading.local: the first attribute access of a thread on an object
\* creates the thread's dictionary and runs __init__ with the arguments
\* __new__ stored; when __init__ raises the dictionary is dropped again
LocalInit(w, o, t, cn, wr) ==
    LET k == Ctx(o, t)
    IN  IF w.d[k].live THEN w
        ELSE LET w1 == Constructor(w, k, t, args[o], cn, wr)
             IN  IF w1.x # "none" THEN [w1 EXCEPT !.d[k] = NoDict] ELSE w1

\* __getnewargs__(): sslopts is not among them
GetNewArgs(d) == <<d.host, d.port, d.timeout>>

\* copy(): the attributes the copy has in the calling thread.  deepcopy
\* brings the attributes over under Python 2 only; host, port and timeout
\* are then set again and _sock is set to None
CopyAttrs(d) ==
    [live |-> TRUE, host |-> d.host, port |-> d.port, timeout |-> d.timeout,
     sock |-> PyNone, sslopts |-> IF py3 THEN PyAbsent ELSE d.sslopts]

\* "Make sure we have a connection": if not self._sock: self.reinit()
LazyDial(w, k, t, cn, wr) ==
    IF ~Truthy(w.d[k].sock) THEN Reinit(w, k, t, cn, wr) ELSE w

SendRetrying(w, k, t, cn, wr, tx) ==
    LET w1 == LazyDial(w, k, t, cn, wr)
    IN  IF w1.x # "none" THEN w1
        ELSE LET h == w1.d[k].sock.i
                 r == IF w1.s[h].open THEN tx ELSE "err"
                 w2 == [w1 EXCEPT !.s[h].users = @ \cup {t},
                                  !.tr = @ \o <<Ev("sendall", h, r)>>]
             IN  IF r = "ok" THEN w2
                 ELSE LET w3 == Reinit(w2, k, t, "ok", wr)
                      IN  IF w3.x # "none" THEN w3
                          ELSE [w3 EXCEPT
                                  !.tr = @ \o <<Ev("sendall", w3.d[k].sock.i, "ok")>>]
\* send(): dial when there is no socket, sendall, and on socket.error clean
\* up and raise.  tx is what sendall does: "ok" or "err"
Send(w, k, t, cn, wr, tx) ==
    LET w1 == LazyDial(w, k, t, cn, wr)
    IN  IF w1.x # "none" THEN w1
        ELSE LET h == w1.d[k].sock.i
                 r == IF w1.s[h].open THEN tx ELSE "err"
                 w2 == [w1 EXCEPT !.s[h].users = @ \cup {t},
                                  !.tr = @ \o <<Ev("sendall", h, r)>>]
             IN  IF r = "err" THEN RaiseConnectionError(w2, k, t) ELSE w2

----------------------------------------------------------------------------
(* Framing *)

ReadReq_all(bytes_left) == RecvChunk
\* the size asked of one socket read
ReadReq(bytes_left) == Min(bytes_left, RecvChunk)

RECURSIVE Join_rev(_)
Join_rev(chunks) ==
    IF chunks = <<>> THEN <<>> ELSE Join_rev(Tail(chunks)) \o Head(chunks)
RECURSIVE Join(_)
\* str.encode('').join(responses)
Join(chunks) == IF chunks = <<>> THEN <<>> ELSE Head(chunks) \o Join(Tail(chunks))

\* struct.unpack('>i', resp): big-endian, signed, 32 bits
Unpack(b) ==
    (IF b[1] >= 128 THEN b[1] - 256 ELSE b[1]) * 16777216
        + b[2] * 65536 + b[3] * 256 + b[4]

\* the peer's encoding of a size in the same format
Pack(n) == <<(n \div 16777216) % 256, (n \div 65536) % 256, (n \div 256) % 256, n % 256>>

FrameOf(p) == Pack(Len(p)) \o p

Payloads == {<<>>, <<7, 9>>}

\* the test "data == ''" on what the socket read returned: never true of
\* the bytes Python 3's socket returns
IsEmptyStr(data) == ~py3 /\ data = <<>>

----------------------------------------------------------------------------
(* collect_hosts.  A str is the sequence of its characters. *)

IsSpace(c) == c = " "

RECURSIVE LStrip(_)
LStrip(x) == IF x # <<>> /\ IsSpace(Head(x)) THEN LStrip(Tail(x)) ELSE x

RECURSIVE RStrip(_)
RStrip(x) ==
    IF x # <<>> /\ IsSpace(x[Len(x)]) THEN RStrip(SubSeq(x, 1, Len(x) - 1)) ELSE x

Strip_none(x) == x
\* str.strip()
Strip(x) == RStrip(LStrip(x))

RECURSIVE Split(_, _)
\* str.split(sep): the pieces between the separators, at least one piece
Split(x, sep) ==
    IF \A i \in DOMAIN x : x[i] # sep THEN <<x>>
    ELSE LET i == CHOOSE j \in DOMAIN x :
                      x[j] = sep /\ \A m \in 1..(j - 1) : x[m] # sep
         IN  <<SubSeq(x, 1, i - 1)>> \o Split(SubSeq(x, i + 1, Len(x)), sep)

Digits == {"0", "1", "2", "3", "4", "5", "6", "7", "8", "9"}

DigitValue(c) ==
    CASE c = "0" -> 0 [] c = "1" -> 1 [] c = "2" -> 2 [] c = "3" -> 3
      [] c = "4" -> 4 [] c = "5" -> 5 [] c = "6" -> 6 [] c = "7" -> 7
      [] c = "8" -> 8 [] OTHER -> 9

\* int(x) accepts decimal digits with blanks around them
IsInt(x) == Strip(x) # <<>> /\ \A i \in DOMAIN Strip(x) : Strip(x)[i] \in Digits

RECURSIVE DigitsValue(_)
DigitsValue(x) ==
    IF x = <<>> THEN 0
    ELSE 10 * DigitsValue(SubSeq(x, 1, Len(x) - 1)) + DigitValue(x[Len(x)])

ToInt(x) == DigitsValue(Strip(x))

\* the permutations of 1..n: what shuffle may do to a list of n items
Perms(n) == {f \in [1..n -> 1..n] : \A i, j \in 1..n : i # j => f[i] # f[j]}

\* the tokens the loop runs over
HostTokens(h) == IF h.isstr THEN Split(Strip(h.s), ",") ELSE h.l

\* one pass of the loop: the pair appended for a token
HostPort(host_port) ==
    LET res == Split(host_port, ":")
    IN  [host |-> Strip(res[1]),
         port |-> IF Len(res) > 1 THEN ToInt(res[2]) ELSE DEFAULT_KAFKA_PORT]

\* collect_hosts(hosts, randomize): every list it may return, or ValueError
\* when int() refuses a port
CollectHosts(h, rnd) ==
    LET toks == HostTokens(h)
        n == Len(toks)
        pairs == [i \in 1..n |-> HostPort(toks[i])]
    IN  IF \E i \in 1..n : Len(Split(toks[i], ":")) > 1
                             /\ ~IsInt(Split(toks[i], ":")[2])
        THEN {[done |-> TRUE, exc |-> "ValueError", val |-> <<>>]}
        ELSE {[done |-> TRUE, exc |-> "none", val |-> [i \in 1..n |-> pairs[p[i]]]] :
                p \in IF rnd THEN Perms(n) ELSE {[i \in 1..n |-> i]}}

NoHosts == [isstr |-> TRUE, s |-> <<>>, l |-> <<>>, meant |-> <<>>]
NoResult == [done |-> FALSE, exc |-> "none", val |-> <<>>]

----------------------------------------------------------------------------
(* State *)

NoFrame ==
    [obj |-> "o", phase |-> "none", num_bytes |-> 0, bytes_left |-> 0,
     responses |-> <<>>, spins |-> 0, reads |-> 0, tr |-> <<>>, pre |-> 0,
     fresh |-> FALSE]

NoRet ==
    [op |-> "none", thr |-> "t1", obj |-> "o", exc |-> "none", tr |-> <<>>,
     val |-> <<>>, reads |-> 0, pre |-> 0, post |-> 0, fresh |-> FALSE]

Conn == {"ok", "err"}
Wrap == {"ok", "SSLError", "error"}

\* the ssl options a client is constructed with
SslChoices ==
    {PyNone,
     PyMap({"security.protocol"}, "ssl"),
     PyMap({"security.protocol"}, "PLAINTEXT"),
     PyMap({"security.protocol", "cert_reqs"}, "SSL"),
     PyMap({"security.protocol", "bogus"}, "SSL")}

\* the positional arguments of KafkaConnection(...)
CtorArgs ==
    {<<PyStr("a"), PyInt(DEFAULT_KAFKA_PORT), s, PyInt(7)>> : s \in SslChoices}

Exists(o) == args[o] # <<>>

Init ==
    /\ py3 \in BOOLEAN
    /\ args = [o \in Objs |-> <<>>]
    /\ dict = [k \in Keys |-> NoDict]
    /\ socks = <<>>
    /\ pc = [t \in Threads |-> "idle"]
    /\ frame = [t \in Threads |-> NoFrame]
    /\ ret = NoRet
    /\ hosts = NoHosts
    /\ randomize = FALSE
    /\ result = NoResult

\* a call of thread t on object o ends in world w
Finish(t, o, op, w, val) ==
    /\ Len(w.s) <= MaxSocks
    /\ dict' = w.d
    /\ socks' = w.s
    /\ ret' = [op |-> op, thr |-> t, obj |-> o, exc |-> w.x, tr |-> w.tr,
               val |-> val, reads |-> 0,
               pre |-> Held(dict[Ctx(o, t)]), post |-> Held(w.d[Ctx(o, t)]),
               fresh |-> ~dict[Ctx(o, t)].live]

\* What the socket calls of a handler may do.  A choice is offered only
\* where the handler reaches the call: a thread that already has its
\* dictionary runs no __init__, ssl.wrap_socket is reached only after a
\* successful connect with options that select SSL and pass the key
\* checks, and nothing is reached once an exception is in flight.
WrapsOf(opts) ==
    IF /\ opts.t = "map"
       /\ "security.protocol" \in opts.keys
       /\ Upper(opts.s) = "SSL"
       /\ opts.keys \subseteq Supported
       /\ "cert_reqs" \notin opts.keys
    THEN Wrap ELSE {"ok"}

InitConn(o, t) == IF dict[Ctx(o, t)].live THEN {"ok"} ELSE Conn
InitWrap(o, t, cn) ==
    IF dict[Ctx(o, t)].live \/ cn = "err" THEN {"ok"}
    ELSE WrapsOf(InitAttrs(args[o]).sslopts)
DialConn(w, k) == IF w.x = "none" THEN Conn ELSE {"ok"}
DialWrap(w, k, cn) ==
    IF w.x = "none" /\ cn = "ok" THEN WrapsOf(w.d[k].sslopts) ELSE {"ok"}
LazyConn(w, k) ==
    IF w.x = "none" /\ ~Truthy(w.d[k].sock) THEN Conn ELSE {"ok"}
LazyWrap(w, k, cn) ==
    IF w.x = "none" /\ ~Truthy(w.d[k].sock) /\ cn = "ok"
    THEN WrapsOf(w.d[k].sslopts) ELSE {"ok"}
IoResults(w) == IF w.x = "none" THEN Conn ELSE {"ok"}

----------------------------------------------------------------------------
(* Actions *)

\* o = KafkaConnection(host, port, sslopts, timeout), in the main thread.
\* When __init__ raises, the caller gets no object.
Construct(A) ==
    /\ ~Exists("o")
    /\ pc["t1"] = "idle"
    /\ \E a \in A : \E cn \in Conn :
       \E wr \in (IF cn = "ok" THEN WrapsOf(InitAttrs(a).sslopts) ELSE {"ok"}) :
       \E w \in {Constructor(World, Ctx("o", "t1"), "t1", a, cn, wr)} :
         /\ Finish("t1", "o", "construct",
                   IF w.x # "none" THEN [w EXCEPT !.d[Ctx("o", "t1")] = NoDict] ELSE w,
                   <<>>)
         /\ args' = IF w.x = "none" THEN [args EXCEPT !["o"] = a] ELSE args
    /\ UNCHANGED <<hosts, randomize, result, py3, pc, frame>>

CallReinit(t, o) ==
    /\ Exists(o) /\ pc[t] = "idle"
    /\ \E c1 \in InitConn(o, t) : \E w1 \in InitWrap(o, t, c1) :
       \E wa \in {LocalInit(World, o, t, c1, w1)} :
       \E cn \in DialConn(wa, Ctx(o, t)) : \E wr \in DialWrap(wa, Ctx(o, t), cn) :
       \E wb \in {IF wa.x # "none" THEN wa ELSE Reinit(wa, Ctx(o, t), t, cn, wr)} :
         Finish(t, o, "reinit", wb, <<>>)
    /\ UNCHANGED <<hosts, randomize, result, py3, args, pc, frame>>

CallClose(t, o) ==
    /\ Exists(o) /\ pc[t] = "idle"
    /\ \E c1 \in InitConn(o, t) : \E w1 \in InitWrap(o, t, c1) :
       \E wa \in {LocalInit(World, o, t, c1, w1)} :
       \E wb \in {IF wa.x # "none" THEN wa ELSE Close(wa, Ctx(o, t), t)} :
         Finish(t, o, "close", wb, <<>>)
    /\ UNCHANGED <<hosts, randomize, result, py3, args, pc, frame>>

CallSend(t, o) ==
    /\ Exists(o) /\ pc[t] = "idle"
    /\ \E c1 \in InitConn(o, t) : \E w1 \in InitWrap(o, t, c1) :
       \E wa \in {LocalInit(World, o, t, c1, w1)} :
       \E cn \in LazyConn(wa, Ctx(o, t)) : \E wr \in LazyWrap(wa, Ctx(o, t), cn) :
       \E wd \in {IF wa.x # "none" THEN wa ELSE LazyDial(wa, Ctx(o, t), t, cn, wr)} :
       \E tx \in IoResults(wd) :
       \E wb \in {IF wa.x # "none" THEN wa ELSE Send(wa, Ctx(o, t), t, cn, wr, tx)} :
         Finish(t, o, "send", wb, <<>>)
    /\ UNCHANGED <<hosts, randomize, result, py3, args, pc, frame>>

\* repr(o): reads self.host and self.port
CallRepr(t, o) ==
    /\ Exists(o) /\ pc[t] = "idle"
    /\ \E c1 \in InitConn(o, t) : \E w1 \in InitWrap(o, t, c1) :
       \E wa \in {LocalInit(World, o, t, c1, w1)} :
         Finish(t, o, "repr", wa, <<>>)
    /\ UNCHANGED <<hosts, randomize, result, py3, args, pc, frame>>

\* c = o.copy(): a new object whose stored arguments are __getnewargs__()
CallCopy(t, o) ==
    /\ Exists(o) /\ pc[t] = "idle"
    /\ \E c \in Objs : \E c1 \in InitConn(o, t) : \E w1 \in InitWrap(o, t, c1) :
         /\ ~Exists(c)
         /\ \E wa \in {LocalInit(World, o, t, c1, w1)} :
            \E wb \in {IF wa.x # "none" THEN wa
                       ELSE [wa EXCEPT !.d[Ctx(c, t)] = CopyAttrs(wa.d[Ctx(o, t)])]} :
              /\ Finish(t, o, "copy", wb, <<>>)
              /\ args' = IF wa.x # "none" THEN args
                         ELSE [args EXCEPT ![c] = GetNewArgs(wa.d[Ctx(o, t)])]
    /\ UNCHANGED <<hosts, randomize, result, py3, pc, frame>>

\* recv(), up to its first socket read: _read_bytes(4) dials when there is
\* no socket and enters the read loop
CallRecv(t, o) ==
    /\ Exists(o) /\ pc[t] = "idle"
    /\ \E c1 \in InitConn(o, t) : \E w1 \in InitWrap(o, t, c1) :
       \E wa \in {LocalInit(World, o, t, c1, w1)} :
       \E cn \in LazyConn(wa, Ctx(o, t)) : \E wr \in LazyWrap(wa, Ctx(o, t), cn) :
       \E wb \in {IF wa.x # "none" THEN wa ELSE LazyDial(wa, Ctx(o, t), t, cn, wr)} :
               LET k == Ctx(o, t)
               IN  IF wb.x # "none"
                   THEN /\ Finish(t, o, "recv", wb, <<>>)
                        /\ UNCHANGED <<pc, frame>>
                   ELSE /\ Len(wb.s) <= MaxSocks
                        /\ dict' = wb.d
                        /\ socks' = wb.s
                        /\ pc' = [pc EXCEPT ![t] = "reading"]
                        /\ frame' = [frame EXCEPT ![t] =
                                       [obj |-> o, phase |-> "size", num_bytes |-> 4,
                                        bytes_left |-> 4, responses |-> <<>>,
                                        spins |-> 0, reads |-> 0, tr |-> wb.tr,
                                        pre |-> Held(dict[k]),
                                        fresh |-> ~dict[k].live]]
                        /\ ret' = [NoRet EXCEPT !.op = "recv", !.thr = t,
                                                 !.obj = o, !.exc = "pending"]
    /\ UNCHANGED <<hosts, randomize, result, py3, args>>

\* the running recv() of thread t ends in world w
FinishRead(t, w, val) ==
    LET f == frame[t]
    IN  /\ dict' = w.d
        /\ socks' = w.s
        /\ pc' = [pc EXCEPT ![t] = "idle"]
        /\ frame' = [frame EXCEPT ![t] = NoFrame]
        /\ ret' = [op |-> "recv", thr |-> t, obj |-> f.obj, exc |-> w.x,
                   tr |-> w.tr, val |-> val, reads |-> f.reads + 1, pre |-> f.pre,
                   post |-> Held(w.d[Ctx(f.obj, t)]), fresh |-> f.fresh]

ReadWorld(t) == [d |-> dict, s |-> socks, x |-> "none", tr |-> frame[t].tr]

\* one iteration of the read loop in which the socket delivers n >= 1 bytes;
\* when the count is satisfied _read_bytes returns, and recv() either
\* decodes the size and starts reading the payload, or returns the payload
ReadData(t) ==
    /\ pc[t] = "reading"
    /\ LET f == frame[t]
           k == Ctx(f.obj, t)
           h == Held(dict[k])
           req == ReadReq(f.bytes_left)
       IN  /\ req > 0
           /\ socks[h].open
           /\ socks[h].inbuf # <<>>
           /\ \E n \in 1..Min(req, Len(socks[h].inbuf)) :
                LET data == SubSeq(socks[h].inbuf, 1, n)
                    left == f.bytes_left - n
                    resp == Append(f.responses, data)
                    w == [ReadWorld(t) EXCEPT
                            !.s[h].inbuf = SubSeq(@, n + 1, Len(@)),
                            !.s[h].users = @ \cup {t}]
                    done == [w EXCEPT !.s[h].nrecv = @ + 1]
                IN  IF left # 0
                    THEN /\ frame' = [frame EXCEPT ![t].bytes_left = left,
                                                   ![t].responses = resp,
                                                   ![t].reads = @ + 1]
                         /\ dict' = w.d
                         /\ socks' = w.s
                         /\ UNCHANGED <<pc, ret>>
                    ELSE IF f.phase = "payload" THEN FinishRead(t, done, Join(resp))
                    ELSE IF Len(Join(resp)) # 4
                         THEN FinishRead(t, [w EXCEPT !.x = "struct.error"], <<>>)
                    ELSE IF Unpack(Join(resp)) = 0 THEN FinishRead(t, done, <<>>)
                    ELSE /\ frame' = [frame EXCEPT
                                        ![t].phase = "payload",
                                        ![t].num_bytes = Unpack(Join(resp)),
                                        ![t].bytes_left = Unpack(Join(resp)),
                                        ![t].responses = <<>>,
                                        ![t].reads = @ + 1]
                         /\ dict' = w.d
                         /\ socks' = w.s
                         /\ UNCHANGED <<pc, ret>>
    /\ UNCHANGED <<hosts, randomize, result, py3, args>>

\* an iteration in which the socket delivers no byte: the peer has closed.
\* The test data == '' holds of Python 2's str; Python 3's recv returns
\* bytes, b'' == '' is false, and the loop goes on with nothing read
ReadEmpty(t) ==
    /\ pc[t] = "reading"
    /\ LET f == frame[t]
           k == Ctx(f.obj, t)
           h == Held(dict[k])
           w == [ReadWorld(t) EXCEPT
                   !.s[h].users = @ \cup {t},
                   !.tr = @ \o <<Ev("recv", h, "empty")>>]
       IN  /\ ReadReq(f.bytes_left) > 0
           /\ socks[h].open
           /\ socks[h].inbuf = <<>>
           /\ socks[h].eof
           /\ IF IsEmptyStr(<<>>)
              THEN \E we \in {RaiseConnectionError(w, k, t)} : FinishRead(t, we, <<>>)
              ELSE /\ f.spins < MaxSpin
                   /\ frame' = [frame EXCEPT
                                  ![t].responses = Append(@, <<>>),
                                  ![t].spins = @ + 1,
                                  ![t].reads = @ + 1,
                                  ![t].tr = w.tr]
                   /\ dict' = w.d
                   /\ socks' = w.s
                   /\ UNCHANGED <<pc, ret>>
    /\ UNCHANGED <<hosts, randomize, result, py3, args>>

\* an iteration in which the socket read raises socket.error (a timeout, a
\* reset, a descriptor already closed)
ReadError(t) ==
    /\ pc[t] = "reading"
    /\ LET f == frame[t]
           k == Ctx(f.obj, t)
           h == Held(dict[k])
           w == [ReadWorld(t) EXCEPT
                   !.s[h].users = @ \cup {t},
                   !.tr = @ \o <<Ev("recv", h, "err")>>]
       IN  /\ ReadReq(f.bytes_left) > 0
           /\ \E we \in {RaiseConnectionError(w, k, t)} : FinishRead(t, we, <<>>)
    /\ UNCHANGED <<hosts, randomize, result, py3, args>>

\* an iteration entered with a negative count: socket.recv refuses a
\* negative size with ValueError, which nothing here catches
ReadNegative(t) ==
    /\ pc[t] = "reading"
    /\ ReadReq(frame[t].bytes_left) < 0
    /\ FinishRead(t, [ReadWorld(t) EXCEPT !.x = "ValueError"], <<>>)
    /\ UNCHANGED <<hosts, randomize, result, py3, args>>

----------------------------------------------------------------------------
(* The peer *)

\* the broker answers with one frame carrying payload p
PeerSend(h, p) ==
    /\ h \in DOMAIN socks
    /\ socks[h].open /\ ~socks[h].eof
    /\ Len(socks[h].frames) < MaxFrames
    /\ socks' = [socks EXCEPT ![h].inbuf = @ \o FrameOf(p),
                              ![h].frames = Append(@, p)]
    /\ UNCHANGED <<hosts, randomize, result, py3, args, dict, pc, frame, ret>>

\* the broker sends one more frame behind those it has already sent
PeerQueue(h, p) ==
    /\ h \in DOMAIN socks
    /\ socks[h].open /\ ~socks[h].eof
    /\ Len(socks[h].frames) < MaxQueued
    /\ socks' = [socks EXCEPT ![h].inbuf = @ \o FrameOf(p),
                              ![h].frames = Append(@, p)]
    /\ UNCHANGED <<hosts, randomize, result, py3, args, dict, pc, frame, ret>>

\* the broker closes its end
PeerClose(h) ==
    /\ h \in DOMAIN socks
    /\ socks[h].open /\ ~socks[h].eof
    /\ socks' = [socks EXCEPT ![h].eof = TRUE]
    /\ UNCHANGED <<hosts, randomize, result, py3, args, dict, pc, frame, ret>>

\* the broker sends four bytes that decode to a negative size, and closes
PeerSendRaw(h) ==
    /\ h \in DOMAIN socks
    /\ socks[h].open /\ ~socks[h].eof
    /\ socks[h].inbuf = <<>> /\ socks[h].frames = <<>>
    /\ socks' = [socks EXCEPT ![h].inbuf = <<255, 255, 255, 255>>,
                              ![h].eof = TRUE]
    /\ UNCHANGED <<hosts, randomize, result, py3, args, dict, pc, frame, ret>>

----------------------------------------------------------------------------
(* Specifications *)

Reads(T) ==
    \E t \in T :
        \/ ReadData(t)
        \/ ReadEmpty(t)
        \/ ReadError(t)
        \/ ReadNegative(t)

Peer ==
    \/ \E h \in 1..MaxSocks, p \in Payloads : PeerSend(h, p)
    \/ \E h \in 1..MaxSocks : PeerClose(h)
    \/ \E h \in 1..MaxSocks : PeerSendRaw(h)

\* one execution context driving one client through its whole life
Next ==
    \/ Construct(CtorArgs)
    \/ CallReinit("t1", "o")
    \/ CallClose("t1", "o")
    \/ CallSend("t1", "o")
    \/ CallRecv("t1", "o")
    \/ Reads({"t1"})
    \/ Peer

Spec == Init /\ [][Next]_vars

\* two execution contexts, a client and its copy
ShareArgs ==
    {<<PyStr("a"), PyInt(DEFAULT_KAFKA_PORT), PyNone, PyNone>>,
     <<PyStr("a"), PyInt(DEFAULT_KAFKA_PORT), PyMap({"security.protocol"}, "SSL"),
       PyInt(7)>>}

NextShare ==
    \/ Construct(ShareArgs)
    \/ \E t \in Threads, o \in Objs :
         \/ CallReinit(t, o)
         \/ CallClose(t, o)
         \/ CallSend(t, o)
         \/ CallCopy(t, o)
         \/ CallRepr(t, o)
         \/ CallRecv(t, o)
    \/ \E t \in Threads : ReadError(t)

SpecShare == Init /\ [][NextShare]_vars

\* one execution context opening, writing to and closing its connection,
\* with a broker that may close its end; reads only fail
NextLife ==
    \/ Construct(CtorArgs)
    \/ CallReinit("t1", "o")
    \/ CallClose("t1", "o")
    \/ CallSend("t1", "o")
    \/ CallRecv("t1", "o")
    \/ ReadError("t1")
    \/ \E h \in 1..MaxSocks : PeerClose(h)

SpecLife == Init /\ [][NextLife]_vars

\* a plain client reading the frames a well-behaved broker queues
PlainArgs == {<<PyStr("a"), PyInt(DEFAULT_KAFKA_PORT), PyNone, PyInt(7)>>}

NextFrames ==
    \/ Construct(PlainArgs)
    \/ CallRecv("t1", "o")
    \/ ReadData("t1")
    \/ \E h \in 1..MaxSocks, p \in Payloads : PeerQueue(h, p)

SpecFrames == Init /\ [][NextFrames]_vars

\* the host[:port] tokens callers pass, each with the pair it stands for
Tokens ==
    {[text |-> <<"a", ":", "1">>, host |-> <<"a">>, port |-> 1],
     [text |-> <<"b">>, host |-> <<"b">>, port |-> DEFAULT_KAFKA_PORT],
     [text |-> <<"c", ":", "3">>, host |-> <<"c">>, port |-> 3],
     [text |-> <<" ", "b", " ">>, host |-> <<"b">>, port |-> DEFAULT_KAFKA_PORT]}

TokenLists == UNION {[1..n -> Tokens] : n \in 1..MaxHosts}

RECURSIVE CommaJoin(_)
\* ','.join(texts)
CommaJoin(ts) ==
    IF Len(ts) = 1 THEN ts[1].text ELSE ts[1].text \o <<",">> \o CommaJoin(Tail(ts))

\* the arguments of collect_hosts: the tokens as one comma-separated string
\* or as a list
HostInputs ==
    {[isstr |-> TRUE, s |-> CommaJoin(ts), l |-> <<>>, meant |-> ts] :
        ts \in TokenLists}
    \cup {[isstr |-> FALSE, s |-> <<>>, l |-> [i \in DOMAIN ts |-> ts[i].text],
           meant |-> ts] : ts \in TokenLists}

InitHosts ==
    /\ py3 \in BOOLEAN
    /\ args = [o \in Objs |-> <<>>]
    /\ dict = [k \in Keys |-> NoDict]
    /\ socks = <<>>
    /\ pc = [t \in Threads |-> "idle"]
    /\ frame = [t \in Threads |-> NoFrame]
    /\ ret = NoRet
    /\ hosts \in HostInputs
    /\ randomize \in BOOLEAN
    /\ result = NoResult

CallCollectHosts ==
    /\ ~result.done
    /\ result' \in CollectHosts(hosts, randomize)
    /\ UNCHANGED <<py3, args, dict, socks, pc, frame, ret, hosts, randomize>>

NextHosts == CallCollectHosts

SpecHosts == InitHosts /\ [][NextHosts]_vars

----------------------------------------------------------------------------
(* Properties.  ret describes the last call: the operation, the object and *)
(* thread, the exception it raised ("none" when it returned, "pending"     *)
(* while recv() is still in its read loop), the socket calls it made, the  *)
(* handle held before and after, and whether the call was the thread's     *)
(* first touch of the object.                                              *)

ConnectsIn(tr) == {i \in DOMAIN tr : tr[i].e = "connect"}
SendsIn(tr) == {i \in DOMAIN tr : tr[i].e = "sendall"}
HandlesIn(tr) == {tr[i].h : i \in DOMAIN tr} \ {0}
Done == ret.op # "none" /\ ret.exc # "pending"

\* C1: whenever send(), recv() or reinit() raises ConnectionError, the
\* connection holds no handle, and the handle the call started with and
\* every handle the call dialed have been closed
C1_FailureLeavesDisconnected ==
    (ret.op \in {"send", "recv", "reinit"} /\ ret.exc = "ConnectionError") =>
        /\ ret.post = 0
        /\ Held(dict[Ctx(ret.obj, ret.thr)]) = 0
        /\ ret.pre # 0 => ~socks[ret.pre].open
        /\ \A h \in HandlesIn(ret.tr) : ~socks[h].open

\* a recv() on a connected client whose socket read raised
C1_Witness ==
    /\ ret.op = "recv" /\ ret.exc = "ConnectionError"
    /\ ret.pre # 0
    /\ \E i \in DOMAIN ret.tr : ret.tr[i] = Ev("recv", ret.pre, "err")
    /\ ~socks[ret.pre].open

\* C2: a send() or recv() made while no handle is held dials exactly once,
\* before any other socket call; when the dial fails the call raises
\* ConnectionError, when it succeeds the call goes on to write to, or read
\* from, the new handle; a send() or recv() made while a handle is held does
\* not dial
C2_LazyDialThenIo ==
    (ret.op \in {"send", "recv"} /\ Done) =>
        IF ret.pre = 0
        THEN /\ Cardinality(ConnectsIn(ret.tr)) = 1
             /\ ret.tr[1].e = "connect"
             /\ ret.tr[1].r = "err" => ret.exc = "ConnectionError"
             /\ ret.tr[1].r = "ok" =>
                  \/ /\ ret.exc = "ConnectionError"
                     /\ \E i \in DOMAIN ret.tr : ret.tr[i] = Ev("wrap", ret.tr[1].h, "error")
                  \/ IF ret.op = "send"
                     THEN \E i \in DOMAIN ret.tr :
                            ret.tr[i].e = "sendall" /\ ret.tr[i].h = ret.tr[1].h
                     ELSE ret.reads >= 1
        ELSE ConnectsIn(ret.tr) = {}

\* C3: a recv() that returns, returns the payload of the frame the peer
\* sent, whole and in order, however the socket cut the frame into reads
C3_RecvReturnsPayload ==
    (ret.op = "recv" /\ ret.exc = "none") =>
        /\ ret.post # 0
        /\ socks[ret.post].nrecv \in 1..Len(socks[ret.post].frames)
        /\ ret.val = socks[ret.post].frames[socks[ret.post].nrecv]

\* a two-byte payload delivered one byte per read: four reads for the size,
\* two for the payload
C3_Witness ==
    /\ ret.op = "recv" /\ ret.exc = "none"
    /\ ret.val = <<7, 9>>
    /\ ret.reads = 6

\* C4: a read that delivers nothing makes recv() raise ConnectionError with
\* the handle closed; recv() never goes on reading after it
C4_ZeroReadRaises ==
    /\ \A t \in Threads : pc[t] = "reading" => frame[t].spins = 0
    /\ (/\ ret.op = "recv" /\ Done
        /\ \E i \in DOMAIN ret.tr : ret.tr[i].e = "recv" /\ ret.tr[i].r = "empty")
         => ret.exc = "ConnectionError" /\ ret.post = 0

\* C5: a reinit() (the one the constructor runs included) that fails in its
\* dial raises ConnectionError and leaves no handle held and no socket open;
\* the process exit on an unknown option key is left aside
C5_DialFailureIsConnectionError ==
    (ret.op \in {"reinit", "construct"} /\ ret.exc \notin {"none", "SystemExit"}) =>
        /\ ret.exc = "ConnectionError"
        /\ ret.post = 0
        /\ \A h \in HandlesIn(ret.tr) : ~socks[h].open

\* no handle is held by two dictionaries, no socket is dialed, read,
\* written or closed by two threads, and each thread sees on the original
\* the configuration it was constructed with
C6_Separate ==
    /\ \A k1, k2 \in Keys :
         (k1 # k2 /\ Held(dict[k1]) # 0) => Held(dict[k1]) # Held(dict[k2])
    /\ \A h \in DOMAIN socks : Cardinality(socks[h].users) <= 1
    /\ \A t \in Threads :
         LET d == dict[Ctx("o", t)]
             a == InitAttrs(args["o"])
         IN  d.live => /\ d.host = a.host /\ d.port = a.port
                       /\ d.timeout = a.timeout /\ d.sslopts = a.sslopts

\* a step of one thread leaves the dictionaries of the other threads and
\* the sockets they dialed as they were
C6_Step ==
    /\ \A k \in Keys : k[2] # ret'.thr => dict'[k] = dict[k]
    /\ \A h \in DOMAIN socks : socks[h].by # ret'.thr => socks'[h] = socks[h]

\* C6: two threads using one client each have their own connection: no
\* handle is shared, a close() or a failure in one thread leaves the other
\* thread's connection alone, and both see the constructor's configuration
C6_PerContextConnection == []C6_Separate /\ [][C6_Step]_vars

\* thread t1 has closed its connection while t2 still holds its own, open
C6_Witness ==
    /\ ret.op = "close" /\ ret.thr = "t1" /\ ret.obj = "o" /\ ret.pre # 0
    /\ dict[Ctx("o", "t1")].live /\ Held(dict[Ctx("o", "t1")]) = 0
    /\ Held(dict[Ctx("o", "t2")]) # 0
    /\ socks[Held(dict[Ctx("o", "t2")])].open
    /\ socks[Held(dict[Ctx("o", "t2")])].by = "t2"

\* C7: copy() dials nothing, leaves the original's handle alone and returns
\* a copy that holds no handle; the copy gets a handle only in reinit(),
\* send() or recv()
C7_CopyIsInactive ==
    /\ (ret.op = "copy" /\ ret.exc = "none") =>
          /\ ConnectsIn(ret.tr) = {}
          /\ ret.pre = ret.post
          /\ \A t \in Threads : Held(dict[Ctx("c", t)]) = 0
    /\ (ret.obj = "c" /\ Done /\ ret.pre = 0
          /\ ret.op \notin {"reinit", "send", "recv"}) => ret.post = 0

\* C8: the copy has the original's host, port, timeout and ssl options, in
\* the thread that made it and in every thread that uses it
C8_CopyKeepsConfig ==
    \A t \in Threads :
        LET d == dict[Ctx("c", t)]
            a == InitAttrs(args["o"])
        IN  d.live => /\ d.host = a.host /\ d.port = a.port
                      /\ d.timeout = a.timeout /\ d.sslopts = a.sslopts

SelectsSsl(opts) ==
    opts.t = "map" /\ "security.protocol" \in opts.keys /\ Upper(opts.s) = "SSL"

\* C11: close() on a client that holds no handle does not raise, makes no
\* socket call and leaves no handle held
C11_CloseIdleNoOp ==
    (ret.op = "close" /\ ret.pre = 0) =>
        /\ ret.exc = "none"
        /\ ret.tr = <<>>
        /\ ret.post = 0
        /\ Held(dict[Ctx(ret.obj, ret.thr)]) = 0

\* a close() of a client that was connected before and holds nothing now
C11_Witness ==
    /\ ret.op = "close" /\ ret.pre = 0 /\ ret.exc = "none"
    /\ socks # <<>>
    /\ \A h \in DOMAIN socks : ~socks[h].open
    /\ dict[Ctx("o", "t1")].live

\* C12: close() on a client that holds a handle calls shutdown and then
\* close on it, whatever shutdown does, does not raise and leaves no handle
\* held; reinit() on such a client does the same before it connects
C12_OrderlyClose ==
    /\ (ret.op = "close" /\ ret.pre # 0) =>
          /\ ret.exc = "none"
          /\ ret.post = 0
          /\ Len(ret.tr) = 2
          /\ ret.tr[1].e = "shutdown" /\ ret.tr[1].h = ret.pre
          /\ ret.tr[2] = Ev("close", ret.pre, "ok")
          /\ ~socks[ret.pre].open
    /\ (ret.op = "reinit" /\ ret.pre # 0) =>
          /\ Len(ret.tr) >= 3
          /\ ret.tr[1].e = "shutdown" /\ ret.tr[1].h = ret.pre
          /\ ret.tr[2] = Ev("close", ret.pre, "ok")
          /\ ret.tr[3].e = "connect"
          /\ ~socks[ret.pre].open

\* a close() whose shutdown failed because the broker had closed its end
C12_Witness ==
    /\ ret.op = "close" /\ ret.pre # 0 /\ ret.exc = "none"
    /\ ret.tr[1] = Ev("shutdown", ret.pre, "err")
    /\ ~socks[ret.pre].open
    /\ Held(dict[Ctx("o", "t1")]) = 0

\* C13: the exit on an unknown option key happens before any socket call
C13_UnknownKeyBeforeIo ==
    ret.exc = "SystemExit" => ret.tr = <<>>

\* C14: a construction or reinit() whose connect succeeded and whose wrap
\* did not fail returns with a handle held, and a wrapped socket has the
\* verification mode of the options, CERT_NONE when they give none
C14_CertReqsApplied ==
    /\ (/\ ret.op \in {"construct", "reinit"}
        /\ ret.exc # "SystemExit"
        /\ \E i \in DOMAIN ret.tr : ret.tr[i].e = "connect" /\ ret.tr[i].r = "ok"
        /\ \A i \in DOMAIN ret.tr : ret.tr[i].e = "wrap" => ret.tr[i].r = "ok")
          => ret.exc = "none" /\ ret.post # 0
    /\ \A k \in Keys :
         (Held(dict[k]) # 0 /\ socks[Held(dict[k])].tls
             /\ "cert_reqs" \notin dict[k].sslopts.keys)
           => socks[Held(dict[k])].cert_reqs = PyStr("CERT_NONE")

\* C18: when a call has ended, a socket that the call started with or
\* opened is still open only if it is the one the connection holds; the
\* process exit on an unknown option key is left aside
C18_NoOpenSocketLeft ==
    (Done /\ ret.exc # "SystemExit") =>
        \A h \in (HandlesIn(ret.tr) \cup {ret.pre}) \ {0} :
            socks[h].open =>
                h = ret.post /\ Held(dict[Ctx(ret.obj, ret.thr)]) = h

\* C20: a construction or reinit() whose TLS handshake failed returns
\* without raising and holds the handle it connected, unwrapped; a send()
\* or recv() on a client that holds a handle does not connect, and send()
\* writes to that handle
C20_HandshakeSwallowed ==
    /\ (/\ ret.op \in {"construct", "reinit"}
        /\ \E i \in DOMAIN ret.tr : ret.tr[i].e = "wrap" /\ ret.tr[i].r = "SSLError")
          => /\ ret.exc = "none"
             /\ ret.post # 0
             /\ ret.tr[Len(ret.tr)] = Ev("wrap", ret.post, "SSLError")
             /\ ~socks[ret.post].tls
             /\ Held(dict[Ctx(ret.obj, ret.thr)]) = ret.post
    /\ (ret.op \in {"send", "recv"} /\ ret.pre # 0) =>
          /\ ConnectsIn(ret.tr) = {}
          /\ ret.op = "send" =>
                ret.tr[1].e = "sendall" /\ ret.tr[1].h = ret.pre

\* a send() on the handle of a client configured for TLS whose handshake
\* had failed
C20_Witness ==
    /\ ret.op = "send" /\ ret.pre # 0
    /\ SelectsSsl(InitAttrs(args["o"]).sslopts)
    /\ ~socks[ret.pre].tls
    /\ ret.tr[1].e = "sendall" /\ ret.tr[1].h = ret.pre

\* C16: a recv() ends in one of two ways: it returns the payload the size
\* prefix announced, or it raises ConnectionError and no handle is held
C16_RecvOutcomes ==
    (ret.op = "recv" /\ Done) =>
        \/ /\ ret.exc = "none"
           /\ ret.post # 0
           /\ Len(ret.val) = Len(socks[ret.post].frames[socks[ret.post].nrecv])
        \/ /\ ret.exc = "ConnectionError"
           /\ ret.post = 0

\* C19: every pass of the read loop that does not raise takes at least one
\* byte off the count still to read: the chunks gathered so far are all
\* non-empty and account for the bytes no longer missing
C19_ReadsMakeProgress ==
    \A t \in Threads :
        pc[t] = "reading" =>
            /\ \A i \in DOMAIN frame[t].responses : frame[t].responses[i] # <<>>
            /\ frame[t].bytes_left + Len(Join(frame[t].responses)) = frame[t].num_bytes

RECURSIVE Stream(_, _)
\* the bytes of frames n, n+1, ... of fs, back to back
Stream(fs, n) == IF n > Len(fs) THEN <<>> ELSE FrameOf(fs[n]) \o Stream(fs, n + 1)

\* C17: between two recv() calls the bytes waiting on the socket are
\* exactly the frames not yet returned, so each recv() has taken its 4+N
\* bytes and no more; a read in progress never has taken more than asked
\* for; and the i-th recv() returns the i-th frame's payload
C17_ExactConsumption ==
    LET h == Held(dict[Ctx("o", "t1")])
    IN  h # 0 =>
          /\ pc["t1"] = "idle" =>
                socks[h].inbuf = Stream(socks[h].frames, socks[h].nrecv + 1)
          /\ pc["t1"] = "reading" => frame["t1"].bytes_left >= 0
          /\ (ret.op = "recv" /\ ret.exc = "none") =>
                /\ socks[h].nrecv \in 1..Len(socks[h].frames)
                /\ ret.val = socks[h].frames[socks[h].nrecv]

\* two frames sent, two recv() calls returned: the second returned the
\* second payload and nothing is left on the socket
C17_Witness ==
    LET h == Held(dict[Ctx("o", "t1")])
    IN  /\ h # 0
        /\ socks[h].frames = << <<7, 9>>, <<>> >>
        /\ socks[h].nrecv = 2
        /\ ret.op = "recv" /\ ret.exc = "none" /\ ret.val = <<>>
        /\ socks[h].inbuf = <<>>

\* the pairs the tokens of the input stand for, in the input's order
Meant == [i \in DOMAIN hosts.meant |->
            [host |-> hosts.meant[i].host, port |-> hosts.meant[i].port]]

Occurrences(x, q) == Cardinality({i \in DOMAIN q : q[i] = x})

\* C15: collect_hosts returns one (host, port) pair per token, the host
\* without surrounding blanks and the port 9092 when the token has none;
\* in the input's order when randomize is false, and as a rearrangement of
\* that list, every pair as often as in it, when randomize is true
C15_CollectHosts ==
    result.done =>
        /\ result.exc = "none"
        /\ Len(result.val) = Len(Meant)
        /\ ~randomize => result.val = Meant
        /\ \A i \in DOMAIN Meant :
              Occurrences(Meant[i], result.val) = Occurrences(Meant[i], Meant)

\* "a:1,b,c:3" with randomize true, returned in another order
C15_Witness ==
    /\ hosts.isstr
    /\ hosts.s = <<"a", ":", "1", ",", "b", ",", "c", ":", "3">>
    /\ randomize
    /\ result.done
    /\ result.val = <<[host |-> <<"c">>, port |-> 3],
                      [host |-> <<"a">>, port |-> 1],
                      [host |-> <<"b">>, port |-> DEFAULT_KAFKA_PORT]>>

====
